---- MODULE Spec2Model ----
(***************************************************************************)
(* A model of nestadia's bus and clock layer: the Emulator of lib.rs (the  *)
(* clock orchestrator, reset, the controller inputs) and the CpuBus and    *)
(* PpuBus of bus.rs (work RAM, controller ports, nametable mirroring).     *)
(* The CPU, the PPU and the cartridge are other modules of the crate; the  *)
(* model keeps of them only what lib.rs and bus.rs read and write: the     *)
(* CPU's cycles field, the PPU's vblank-NMI flag, the cartridge's          *)
(* mirroring mode and mapper-IRQ flag.                                     *)
(***************************************************************************)
EXTENDS Integers, Naturals, Sequences, FiniteSets, TLC

(***************************************************************************)
(* Fixed-width integer arithmetic (u8, u16).                               *)
(***************************************************************************)
U8 == 256

U16 == 65536

\* The bit of weight w (1, 2, 4 or 8) that a and b share.
AndBit(a, b, w) == ((a \div w) % 2) * ((b \div w) % 2) * w

\* a & b on values below 16.
BitAnd4(a, b) ==
    AndBit(a, b, 1) + AndBit(a, b, 2) + AndBit(a, b, 4) + AndBit(a, b, 8)

RECURSIVE BitAnd(_, _)
\* a & b on naturals, four bits at a time.
BitAnd(a, b) ==
    IF a = 0 \/ b = 0 THEN 0
    ELSE BitAnd4(a % 16, b % 16) + 16 * BitAnd(a \div 16, b \div 16)

RECURSIVE Pow2(_)
Pow2(n) == IF n = 0 THEN 1 ELSE 2 * Pow2(n - 1)

\* a >> n
Shr(a, n) == a \div Pow2(n)

\* a << n on a u8: the bits shifted out are lost.
Shl8(a, n) == (a * Pow2(n)) % U8

\* a.wrapping_add(b) on a u8.
WrappingAdd8(a, b) == (a + b) % U8

(***************************************************************************)
(* A zero-initialised byte array [0u8; len], kept as its length and its    *)
(* non-zero cells.                                                         *)
(***************************************************************************)
ArrayNew(len) == [len |-> len, cells |-> [i \in {} |-> 0]]

InBounds(arr, i) == i >= 0 /\ i < arr.len

Load(arr, i) == IF i \in DOMAIN arr.cells THEN arr.cells[i] ELSE 0

Store(arr, i, d) ==
    [arr EXCEPT !.cells =
        [j \in (IF d = 0 THEN DOMAIN arr.cells \ {i} ELSE DOMAIN arr.cells \cup {i})
            |-> IF j = i THEN d ELSE arr.cells[j]]]

(***************************************************************************)
(* Program constants.                                                      *)
(***************************************************************************)
RAM_SIZE == 2048

NAME_TABLES_SIZE == 4096

Mirroring == {"Horizontal", "Vertical", "FourScreen", "OneScreenLower", "OneScreenUpper"}

(***************************************************************************)
(* Bounds of the model.                                                    *)
(***************************************************************************)
\* Ticks since construction or reset that SpecClock follows.
MaxTicks == 260

\* Ticks since construction or reset that Spec follows.
ShortRun == 4

\* The CPU's cycles field ranges over 0..MaxCycles.
MaxCycles == 2

\* Controller reads followed after a write with bit 0 clear.
MaxReads == 9

\* Non-zero cells of video RAM that SpecNt lets a session write.
MaxCells == 1

(***************************************************************************)
(* State.                                                                  *)
(***************************************************************************)
VARIABLES
    cartridge,              \* Emulator.cartridge: [mirroring, irq_set]
    cpu,                    \* Emulator.cpu: [cycles]
    controller1,            \* live button byte of port 1
    controller2,            \* live button byte of port 2
    controller1_state,      \* strobe flag of port 1
    controller2_state,      \* strobe flag of port 2
    controller1_snapshot,   \* shift register of port 1
    controller2_snapshot,   \* shift register of port 2
    ram,                    \* work RAM
    ppu,                    \* Emulator.ppu: [nmi_set]
    name_tables,            \* video RAM
    clock_count,            \* phase counter (u8)
    panicked,               \* "none", or the panic that ended the session
    ticks,                  \* history: clock() calls since construction/reset
    hist,                   \* history: per port, the last controller write
    deferred,               \* history: a mapper IRQ that lost to an NMI is still pending
    last                    \* history: the last operation, its inputs and outputs

vars == <<cartridge, cpu, controller1, controller2, controller1_state,
          controller2_state, controller1_snapshot, controller2_snapshot,
          ram, ppu, name_tables, clock_count, panicked, ticks, hist, deferred,
          last>>

pool == <<controller1, controller2, controller1_state, controller2_state,
          controller1_snapshot, controller2_snapshot, ram, name_tables>>

\* Before the first write of a port. Afterwards, of the last write: the byte
\* written (data) and the live byte at that moment (live); and after a write
\* with bit 0 clear: the reads of the port since (reads) and the inputs since
\* (after): none (n = 0), a single set_controller call made before any read,
\* with its byte (n = 1), or anything else (n = 2).
NoInput == [n |-> 0, state |-> 0]

NoWrite == [written |-> FALSE, data |-> 0, live |-> 0, reads |-> 0,
            after |-> NoInput]

\* The last write of the port had bit 0 clear.
Low(h) == h.written /\ h.data % 2 = 0

InputAfter(h, state) ==
    IF ~Low(h) THEN NoInput
    ELSE IF h.reads = 0 /\ h.after.n = 0 THEN [n |-> 1, state |-> state]
    ELSE [n |-> 2, state |-> 0]

ReadsAfter(h) == IF Low(h) THEN h.reads + 1 ELSE 0

(***************************************************************************)
(* bus.rs: the bus views. e.views records, in order, the views an operation *)
(* constructs (borrow) and the end of their life, that is their last use   *)
(* (drop); owner is the object whose fields the view borrows.              *)
(***************************************************************************)
\* borrow_cpu_bus!(self), with self the Emulator.
borrow_cpu_bus(e) ==
    [e EXCEPT !.views = Append(@, [op |-> "borrow", view |-> "CpuBus",
                                   owner |-> "Emulator"])]

\* borrow_ppu_bus!(owner).
borrow_ppu_bus(e, owner) ==
    [e EXCEPT !.views = Append(@, [op |-> "borrow", view |-> "PpuBus",
                                   owner |-> owner])]

\* The last use of a view.
drop_bus(e, view) ==
    [e EXCEPT !.views = Append(@, [op |-> "drop", view |-> view,
                                   owner |-> "none"])]

(***************************************************************************)
(* The external components, as far as lib.rs and bus.rs use them.          *)
(***************************************************************************)
\* Ppu::clock: one PPU step. It may enter vblank (raising the NMI flag) and
\* may notify the cartridge of a scanline (PpuBus::irq_scanline), which may
\* raise the mapper IRQ.
Ppu_clock(e, in) ==
    [e EXCEPT !.ppu.nmi_set = @ \/ in.vblank,
              !.cartridge.irq_set = @ \/ in.scanline_irq,
              !.log = Append(@, "ppu")]

\* Ppu::take_vblank_nmi_set_state: query and consume.
take_vblank_nmi_set_state(e) ==
    [ret |-> e.ppu.nmi_set,
     e |-> [e EXCEPT !.ppu.nmi_set = FALSE, !.log = Append(@, "take_nmi")]]

\* Cartridge::take_irq_set_state: query and consume.
take_irq_set_state(e) ==
    [ret |-> e.cartridge.irq_set,
     e |-> [e EXCEPT !.cartridge.irq_set = FALSE, !.log = Append(@, "take_irq")]]

\* Cpu::nmi, Cpu::irq: signal the interrupt entry.
Cpu_nmi(e) == [e EXCEPT !.log = Append(@, "nmi")]

Cpu_irq(e) == [e EXCEPT !.log = Append(@, "irq")]

\* Ppu::write, Ppu::read: a register access, given the PPU bus.
Ppu_write(e) == e

Ppu_read(e) == e

\* CpuBus::write_ppu_register, CpuBus::read_ppu_register.
write_ppu_register_fn(e) ==
    drop_bus(Ppu_write(borrow_ppu_bus(e, "CpuBus")), "PpuBus")

read_ppu_register_fn(e) ==
    drop_bus(Ppu_read(borrow_ppu_bus(e, "CpuBus")), "PpuBus")

\* The PPU register accesses a CPU step may make.
RegAccess == {"none", "read", "write"}

\* Cpu::clock: one CPU step; it may access a PPU register through its bus,
\* and leaves the CPU with in.cycles cycles to go.
Cpu_clock(e, in) ==
    LET e1 == IF in.reg = "write" THEN write_ppu_register_fn(e)
              ELSE IF in.reg = "read" THEN read_ppu_register_fn(e)
              ELSE e
    IN  [e1 EXCEPT !.cpu.cycles = in.cycles, !.log = Append(@, "cpu")]

\* Cpu::reset: the internal state is re-initialised; it leaves the CPU with
\* in.cycles cycles to go. Ppu::reset: no NMI is pending.
Cpu_reset(e, in) == [e EXCEPT !.cpu.cycles = in.cycles]

Ppu_reset(e) == [e EXCEPT !.ppu.nmi_set = FALSE]

(***************************************************************************)
(* lib.rs: Emulator.                                                       *)
(***************************************************************************)
\* What a tick's log says.
Logged(log, x) == \E i \in DOMAIN log : log[i] = x

CountOf(log, x) == Cardinality({i \in DOMAIN log : log[i] = x})

\* The fields of the Emulator a tick works on, with the tick's log.
Self == [clock_count |-> clock_count, cpu |-> cpu, ppu |-> ppu,
         cartridge |-> cartridge, log |-> << >>, views |-> << >>]

\* if self.clock_count % 3 == 0
cpu_due(count) == count % 3 = 0

\* (mutant) the branch without the reset of the counter.
M_clock_cpu_no_reset(e, in) ==
    IF e.cpu.cycles = 0
    THEN LET n == take_vblank_nmi_set_state(e) IN
         IF n.ret
         THEN drop_bus(Cpu_clock(Cpu_nmi(borrow_cpu_bus(n.e)), in), "CpuBus")
         ELSE LET q == take_irq_set_state(n.e) IN
              IF q.ret
              THEN drop_bus(Cpu_clock(Cpu_irq(borrow_cpu_bus(q.e)), in), "CpuBus")
              ELSE drop_bus(Cpu_clock(borrow_cpu_bus(q.e), in), "CpuBus")
    ELSE drop_bus(Cpu_clock(borrow_cpu_bus(e), in), "CpuBus")

\* (mutant) both pending flags are taken before the branch is chosen.
M_clock_cpu_eager(e, in) ==
    LET e0 == [e EXCEPT !.clock_count = 0] IN
    IF e0.cpu.cycles = 0
    THEN LET n == take_vblank_nmi_set_state(e0)
             q == take_irq_set_state(n.e)
         IN  IF n.ret
             THEN drop_bus(Cpu_clock(Cpu_nmi(borrow_cpu_bus(q.e)), in), "CpuBus")
             ELSE IF q.ret
             THEN drop_bus(Cpu_clock(Cpu_irq(borrow_cpu_bus(q.e)), in), "CpuBus")
             ELSE drop_bus(Cpu_clock(borrow_cpu_bus(q.e), in), "CpuBus")
    ELSE drop_bus(Cpu_clock(borrow_cpu_bus(e0), in), "CpuBus")

\* (mutant) the pending flags are queried before the CPU is tested for idle.
M_clock_cpu_query_first(e, in) ==
    LET e0 == [e EXCEPT !.clock_count = 0]
        n == take_vblank_nmi_set_state(e0)
    IN  IF n.ret /\ e0.cpu.cycles = 0
        THEN drop_bus(Cpu_clock(Cpu_nmi(borrow_cpu_bus(n.e)), in), "CpuBus")
        ELSE LET q == take_irq_set_state(n.e) IN
             IF q.ret /\ e0.cpu.cycles = 0
             THEN drop_bus(Cpu_clock(Cpu_irq(borrow_cpu_bus(q.e)), in), "CpuBus")
             ELSE drop_bus(Cpu_clock(borrow_cpu_bus(q.e), in), "CpuBus")

\* (mutant) after an NMI entry the mapper IRQ is queried and signalled too.
M_clock_cpu_nmi_then_irq(e, in) ==
    LET e0 == [e EXCEPT !.clock_count = 0] IN
    IF e0.cpu.cycles = 0
    THEN LET n == take_vblank_nmi_set_state(e0)
             q == take_irq_set_state(n.e)
         IN  IF n.ret /\ q.ret
             THEN drop_bus(Cpu_clock(Cpu_irq(Cpu_nmi(borrow_cpu_bus(q.e))), in),
                           "CpuBus")
             ELSE IF n.ret
             THEN drop_bus(Cpu_clock(Cpu_nmi(borrow_cpu_bus(n.e)), in), "CpuBus")
             ELSE IF q.ret
             THEN drop_bus(Cpu_clock(Cpu_irq(borrow_cpu_bus(q.e)), in), "CpuBus")
             ELSE drop_bus(Cpu_clock(borrow_cpu_bus(q.e), in), "CpuBus")
    ELSE drop_bus(Cpu_clock(borrow_cpu_bus(e0), in), "CpuBus")

\* The body of the CPU-due branch: the counter is set to 0, then the
\* if / else if / else chain with its short-circuit conditions.
clock_cpu(e, in) ==
    LET e0 == [e EXCEPT !.clock_count = 0] IN
    IF e0.cpu.cycles = 0
    THEN LET n == take_vblank_nmi_set_state(e0) IN
         IF n.ret
         THEN drop_bus(Cpu_clock(Cpu_nmi(borrow_cpu_bus(n.e)), in), "CpuBus")
         ELSE LET q == take_irq_set_state(n.e) IN
              IF q.ret
              THEN drop_bus(Cpu_clock(Cpu_irq(borrow_cpu_bus(q.e)), in), "CpuBus")
              ELSE drop_bus(Cpu_clock(borrow_cpu_bus(q.e), in), "CpuBus")
    ELSE drop_bus(Cpu_clock(borrow_cpu_bus(e0), in), "CpuBus")

\* (mutant) the CPU branch runs before the PPU step.
M_Emulator_clock_cpu_first(e, in) ==
    LET e1 == IF cpu_due(e.clock_count) THEN clock_cpu(e, in) ELSE e
        e2 == drop_bus(Ppu_clock(borrow_ppu_bus(e1, "Emulator"), in), "PpuBus")
    IN  [e2 EXCEPT !.clock_count = WrappingAdd8(@, 1)]

\* (mutant) a free-running counter: the CPU-due branch leaves it as it was.
M_Emulator_clock_free_running(e, in) ==
    LET e1 == drop_bus(Ppu_clock(borrow_ppu_bus(e, "Emulator"), in), "PpuBus")
        e2 == IF cpu_due(e1.clock_count)
              THEN [clock_cpu(e1, in) EXCEPT !.clock_count = e1.clock_count]
              ELSE e1
    IN  [e2 EXCEPT !.clock_count = WrappingAdd8(@, 1)]

\* (mutant) the counter is kept modulo 3 at the end of the tick.
M_Emulator_clock_count_mod3(e, in) ==
    LET e1 == drop_bus(Ppu_clock(borrow_ppu_bus(e, "Emulator"), in), "PpuBus")
        e2 == IF cpu_due(e1.clock_count) THEN clock_cpu(e1, in) ELSE e1
    IN  [e2 EXCEPT !.clock_count = WrappingAdd8(@, 1) % 3]

\* (mutant) the PPU bus of the tick stays in use to the end of the tick.
M_Emulator_clock_ppu_bus_kept(e, in) ==
    LET e1 == Ppu_clock(borrow_ppu_bus(e, "Emulator"), in)
        e2 == IF cpu_due(e1.clock_count) THEN clock_cpu(e1, in) ELSE e1
    IN  drop_bus([e2 EXCEPT !.clock_count = WrappingAdd8(@, 1)], "PpuBus")

\* Emulator::clock, as a function of the fields.
Emulator_clock(e, in) ==
    LET e1 == drop_bus(Ppu_clock(borrow_ppu_bus(e, "Emulator"), in), "PpuBus")
        e2 == IF cpu_due(e1.clock_count) THEN clock_cpu(e1, in) ELSE e1
    IN  [e2 EXCEPT !.clock_count = WrappingAdd8(@, 1)]

\* Emulator::reset, as a function of the fields.
Emulator_reset(e, in) ==
    [Ppu_reset(drop_bus(Cpu_reset(borrow_cpu_bus(e), in), "CpuBus"))
        EXCEPT !.clock_count = 0]

ResetInputs == [cycles : 0..MaxCycles]

\* A reset that leaves the CPU idle.
QuietResets == [cycles : {0}]

\* What the external components do in a tick: the PPU step enters vblank,
\* or notifies a scanline IRQ; the CPU step leaves cycles to go, and makes a
\* PPU register access. ClockInputs: ticks without register access.
TickInputs(regs) ==
    [vblank : BOOLEAN, scanline_irq : BOOLEAN, cycles : 0..MaxCycles,
     reg : regs]

ClockInputs == TickInputs({"none"})

clock(in) ==
    /\ panicked = "none"
    /\ LET e == Emulator_clock(Self, in) IN
       /\ clock_count' = e.clock_count
       /\ cpu' = e.cpu
       /\ ppu' = e.ppu
       /\ cartridge' = e.cartridge
       /\ last' = [op |-> "clock", in |-> in, log |-> e.log, views |-> e.views,
                   served_deferred |-> deferred /\ Logged(e.log, "irq")]
       /\ deferred' = IF Logged(e.log, "irq") THEN FALSE
                      ELSE IF Logged(e.log, "nmi") /\ e.cartridge.irq_set THEN TRUE
                      ELSE deferred
    /\ ticks' = ticks + 1
    /\ UNCHANGED <<pool, panicked, hist>>

\* (mutant) a reset that clears work RAM, as a power-on would.
M_reset_clears_ram(in) ==
    /\ panicked = "none"
    /\ LET e == Emulator_reset(Self, in) IN
       /\ clock_count' = e.clock_count
       /\ cpu' = e.cpu
       /\ ppu' = e.ppu
       /\ cartridge' = e.cartridge
    /\ ram' = ArrayNew(RAM_SIZE)
    /\ last' = [op |-> "reset", count |-> clock_count,
                views |-> Emulator_reset(Self, in).views]
    /\ ticks' = 0
    /\ UNCHANGED <<controller1, controller2, controller1_state,
                   controller2_state, controller1_snapshot,
                   controller2_snapshot, name_tables, panicked, hist, deferred>>

\* Emulator::reset. The CPU bus handed to Cpu::reset borrows the whole pool;
\* the CPU's reset re-initialises the CPU and writes nothing through it.
reset(in) ==
    /\ panicked = "none"
    /\ LET e == Emulator_reset(Self, in) IN
       /\ clock_count' = e.clock_count
       /\ cpu' = e.cpu
       /\ ppu' = e.ppu
       /\ cartridge' = e.cartridge
    /\ last' = [op |-> "reset", count |-> clock_count,
                views |-> Emulator_reset(Self, in).views]
    /\ ticks' = 0
    /\ UNCHANGED <<pool, panicked, hist, deferred>>

\* (mutant) an input set while the strobe is high is latched at once.
M_set_controller1_latched(state) ==
    /\ panicked = "none"
    /\ controller1' = state
    /\ controller1_snapshot' = IF controller1_state THEN state
                               ELSE controller1_snapshot
    /\ hist' = [hist EXCEPT ![1].after = InputAfter(hist[1], state)]
    /\ last' = [op |-> "set_controller", port |-> 1, state |-> state]
    /\ UNCHANGED <<cartridge, cpu, ppu, clock_count, panicked, ticks, deferred,
                   controller2, controller1_state, controller2_state,
                   controller2_snapshot, ram, name_tables>>

set_controller1(state) ==
    /\ panicked = "none"
    /\ controller1' = state
    /\ hist' = [hist EXCEPT ![1].after = InputAfter(hist[1], state)]
    /\ last' = [op |-> "set_controller", port |-> 1, state |-> state]
    /\ UNCHANGED <<cartridge, cpu, ppu, clock_count, panicked, ticks, deferred,
                   controller2, controller1_state, controller2_state,
                   controller1_snapshot, controller2_snapshot, ram, name_tables>>

set_controller2(state) ==
    /\ panicked = "none"
    /\ controller2' = state
    /\ hist' = [hist EXCEPT ![2].after = InputAfter(hist[2], state)]
    /\ last' = [op |-> "set_controller", port |-> 2, state |-> state]
    /\ UNCHANGED <<cartridge, cpu, ppu, clock_count, panicked, ticks, deferred,
                   controller1, controller1_state, controller2_state,
                   controller1_snapshot, controller2_snapshot, ram, name_tables>>

(***************************************************************************)
(* bus.rs: CpuBus, the controller ports.                                   *)
(***************************************************************************)
\* A controller port as a bus operation sees it.
Port(live, state, snapshot) ==
    [live |-> live, state |-> state, snapshot |-> snapshot]

\* (mutant) any set bit of the byte written sets the strobe.
M_controller2_write_any_bit(c, data) ==
    [c EXCEPT !.state = (data # 0), !.snapshot = c.live]

\* (mutant) the snapshot is captured only when the strobe is cleared.
M_controller1_write_latch_low(c, data) ==
    [c EXCEPT !.state = (BitAnd(data, 1) = 1),
              !.snapshot = IF BitAnd(data, 1) = 1 THEN @ ELSE c.live]

\* CpuBus::controller1_write: the port after the write.
controller1_write_fn(c, data) ==
    [c EXCEPT !.state = (BitAnd(data, 1) = 1), !.snapshot = c.live]

\* (mutant) the snapshot is captured only when the strobe is set.
M_controller2_write_latch_high(c, data) ==
    [c EXCEPT !.state = (BitAnd(data, 1) = 1),
              !.snapshot = IF BitAnd(data, 1) = 1 THEN c.live ELSE @]

\* CpuBus::controller2_write: the port after the write.
controller2_write_fn(c, data) ==
    [c EXCEPT !.state = (BitAnd(data, 1) = 1), !.snapshot = c.live]

\* (mutant) the snapshot is shifted right.
M_read_controller1_shift_right(c) ==
    IF c.state
    THEN [ret |-> BitAnd(c.live, Shr(128, 7)), c |-> c]
    ELSE [ret |-> Shr(BitAnd(c.snapshot, 128), 7),
          c |-> [c EXCEPT !.snapshot = Shr(@, 1)]]

\* CpuBus::read_controller1_snapshot: the value returned and the port after
\* the read. `*self.controller1 & 0x80 >> 7` is `live & (0x80 >> 7)`: in Rust
\* the shift binds tighter than the bitwise and.
read_controller1_snapshot_fn(c) ==
    IF c.state
    THEN [ret |-> BitAnd(c.live, Shr(128, 7)), c |-> c]
    ELSE [ret |-> Shr(BitAnd(c.snapshot, 128), 7),
          c |-> [c EXCEPT !.snapshot = Shl8(@, 1)]]

\* CpuBus::read_controller2_snapshot.
read_controller2_snapshot_fn(c) ==
    IF c.state
    THEN [ret |-> BitAnd(c.live, Shr(128, 7)), c |-> c]
    ELSE [ret |-> Shr(BitAnd(c.snapshot, 128), 7),
          c |-> [c EXCEPT !.snapshot = Shl8(@, 1)]]

\* A shift-out is in progress: the last write had bit 0 clear and 1 to 7
\* reads were made since.
Restart(h) == Low(h) /\ h.reads \in 1..7

WriteOf(p, data) ==
    [written |-> TRUE, data |-> data,
     live |-> IF p = 1 THEN controller1 ELSE controller2,
     reads |-> 0, after |-> NoInput]

controller1_write(data) ==
    /\ panicked = "none"
    /\ LET c == controller1_write_fn(
                    Port(controller1, controller1_state, controller1_snapshot), data)
       IN  /\ controller1' = c.live
           /\ controller1_state' = c.state
           /\ controller1_snapshot' = c.snapshot
    /\ hist' = [hist EXCEPT ![1] = WriteOf(1, data)]
    /\ last' = [op |-> "controller_write", port |-> 1, data |-> data,
                restart |-> Restart(hist[1])]
    /\ UNCHANGED <<cartridge, cpu, ppu, clock_count, panicked, ticks, deferred,
                   controller2, controller2_state, controller2_snapshot, ram,
                   name_tables>>

controller2_write(data) ==
    /\ panicked = "none"
    /\ LET c == controller2_write_fn(
                    Port(controller2, controller2_state, controller2_snapshot), data)
       IN  /\ controller2' = c.live
           /\ controller2_state' = c.state
           /\ controller2_snapshot' = c.snapshot
    /\ hist' = [hist EXCEPT ![2] = WriteOf(2, data)]
    /\ last' = [op |-> "controller_write", port |-> 2, data |-> data,
                restart |-> Restart(hist[2])]
    /\ UNCHANGED <<cartridge, cpu, ppu, clock_count, panicked, ticks, deferred,
                   controller1, controller1_state, controller1_snapshot, ram,
                   name_tables>>

read_controller1_snapshot ==
    /\ panicked = "none"
    /\ hist[1].reads < MaxReads
    /\ LET r == read_controller1_snapshot_fn(
                    Port(controller1, controller1_state, controller1_snapshot))
       IN  /\ controller1' = r.c.live
           /\ controller1_state' = r.c.state
           /\ controller1_snapshot' = r.c.snapshot
           /\ last' = [op |-> "controller_read", port |-> 1, ret |-> r.ret]
    /\ hist' = [hist EXCEPT ![1].reads = ReadsAfter(hist[1])]
    /\ UNCHANGED <<cartridge, cpu, ppu, clock_count, panicked, ticks, deferred,
                   controller2, controller2_state, controller2_snapshot, ram,
                   name_tables>>

read_controller2_snapshot ==
    /\ panicked = "none"
    /\ hist[2].reads < MaxReads
    /\ LET r == read_controller2_snapshot_fn(
                    Port(controller2, controller2_state, controller2_snapshot))
       IN  /\ controller2' = r.c.live
           /\ controller2_state' = r.c.state
           /\ controller2_snapshot' = r.c.snapshot
           /\ last' = [op |-> "controller_read", port |-> 2, ret |-> r.ret]
    /\ hist' = [hist EXCEPT ![2].reads = ReadsAfter(hist[2])]
    /\ UNCHANGED <<cartridge, cpu, ppu, clock_count, panicked, ticks, deferred,
                   controller1, controller1_state, controller1_snapshot, ram,
                   name_tables>>

(***************************************************************************)
(* bus.rs: CpuBus, work RAM.                                               *)
(***************************************************************************)
\* (addr & (RAM_SIZE - 1)) as usize
ram_index(addr) == BitAnd(addr, RAM_SIZE - 1)

\* (mutant) the address is not masked.
M_write_ram_unmasked(arr, addr, data) ==
    IF InBounds(arr, addr)
    THEN [panic |-> "none", arr |-> Store(arr, addr, data)]
    ELSE [panic |-> "index", arr |-> arr]

\* CpuBus::write_ram: the array after the write, or the panic of an index
\* out of bounds.
write_ram_fn(arr, addr, data) ==
    LET i == ram_index(addr) IN
    IF InBounds(arr, i)
    THEN [panic |-> "none", arr |-> Store(arr, i, data)]
    ELSE [panic |-> "index", arr |-> arr]

\* CpuBus::read_ram: the byte read, or the panic.
read_ram_fn(arr, addr) ==
    LET i == ram_index(addr) IN
    IF InBounds(arr, i)
    THEN [panic |-> "none", ret |-> Load(arr, i)]
    ELSE [panic |-> "index", ret |-> 0]

write_ram(addr, data) ==
    /\ panicked = "none"
    /\ \E w \in {write_ram_fn(ram, addr, data)} :
       /\ ram' = w.arr
       /\ panicked' = w.panic
    /\ last' = [op |-> "write_ram", addr |-> addr, data |-> data]
    /\ UNCHANGED <<cartridge, cpu, ppu, clock_count, ticks, deferred, hist,
                   controller1, controller2, controller1_state,
                   controller2_state, controller1_snapshot,
                   controller2_snapshot, name_tables>>

read_ram(addr) ==
    /\ panicked = "none"
    /\ \E r \in {read_ram_fn(ram, addr)} :
       /\ panicked' = r.panic
       /\ last' = [op |-> "read_ram", addr |-> addr, ret |-> r.ret]
    /\ UNCHANGED <<cartridge, cpu, ppu, clock_count, ticks, deferred, hist,
                   pool>>

(***************************************************************************)
(* bus.rs: PpuBus, the nametables.                                         *)
(***************************************************************************)
\* a - b on u16: with overflow checks (a debug build) an underflow panics,
\* without them (a release build) it wraps.
Sub16(a, b, overflow_checks) ==
    IF a >= b THEN [panic |-> "none", val |-> a - b]
    ELSE IF overflow_checks THEN [panic |-> "overflow", val |-> 0]
    ELSE [panic |-> "none", val |-> a - b + U16]

Within(x, lo, hi) == lo <= x /\ x <= hi

Idx(i) == [panic |-> "none", idx |-> i]

Unreachable == [panic |-> "unreachable", idx |-> 0]

\* (mutant) the tables of Horizontal and Vertical exchanged.
M_mirror_match_swapped(mode, idx) ==
    CASE mode = "Vertical" ->
            (CASE Within(idx, 0, 1023) -> Idx(idx)
               [] Within(idx, 1024, 2047) -> Idx(idx - 1024)
               [] Within(idx, 2048, 3071) -> Idx(idx - 1024)
               [] Within(idx, 3072, 4095) -> Idx(idx - 2048)
               [] OTHER -> Unreachable)
      [] mode = "Horizontal" ->
            (CASE Within(idx, 0, 2047) -> Idx(idx)
               [] Within(idx, 2048, 4095) -> Idx(idx - 2048)
               [] OTHER -> Unreachable)
      [] mode = "FourScreen" -> Idx(idx)
      [] mode = "OneScreenLower" ->
            (CASE Within(idx, 0, 1023) -> Idx(idx)
               [] Within(idx, 1024, 2047) -> Idx(idx - 1024)
               [] Within(idx, 2048, 3071) -> Idx(idx - 2048)
               [] Within(idx, 3072, 4095) -> Idx(idx - 3072)
               [] OTHER -> Unreachable)
      [] mode = "OneScreenUpper" ->
            (CASE Within(idx, 0, 1023) -> Idx(idx + 1024)
               [] Within(idx, 1024, 2047) -> Idx(idx)
               [] Within(idx, 2048, 3071) -> Idx(idx - 1024)
               [] Within(idx, 3072, 4095) -> Idx(idx - 2048)
               [] OTHER -> Unreachable)

\* The match of mirror_name_tables_addr on the mode and, inside, on idx.
mirror_match(mode, idx) ==
    CASE mode = "Horizontal" ->
            (CASE Within(idx, 0, 1023) -> Idx(idx)
               [] Within(idx, 1024, 2047) -> Idx(idx - 1024)
               [] Within(idx, 2048, 3071) -> Idx(idx - 1024)
               [] Within(idx, 3072, 4095) -> Idx(idx - 2048)
               [] OTHER -> Unreachable)
      [] mode = "Vertical" ->
            (CASE Within(idx, 0, 2047) -> Idx(idx)
               [] Within(idx, 2048, 4095) -> Idx(idx - 2048)
               [] OTHER -> Unreachable)
      [] mode = "FourScreen" -> Idx(idx)
      [] mode = "OneScreenLower" ->
            (CASE Within(idx, 0, 1023) -> Idx(idx)
               [] Within(idx, 1024, 2047) -> Idx(idx - 1024)
               [] Within(idx, 2048, 3071) -> Idx(idx - 2048)
               [] Within(idx, 3072, 4095) -> Idx(idx - 3072)
               [] OTHER -> Unreachable)
      [] mode = "OneScreenUpper" ->
            (CASE Within(idx, 0, 1023) -> Idx(idx + 1024)
               [] Within(idx, 1024, 2047) -> Idx(idx)
               [] Within(idx, 2048, 3071) -> Idx(idx - 1024)
               [] Within(idx, 3072, 4095) -> Idx(idx - 2048)
               [] OTHER -> Unreachable)

\* (mutant) the mask keeps bit 12: $3000-$3FFF is not folded.
M_mirror_name_tables_addr_keep_bit12(mode, addr, overflow_checks) ==
    LET mirrored == BitAnd(addr, 16383)
        idx == Sub16(mirrored, 8192, overflow_checks)
    IN  IF idx.panic # "none" THEN [panic |-> idx.panic, idx |-> 0]
        ELSE mirror_match(mode, idx.val)

\* PpuBus::mirror_name_tables_addr: the index, or the panic.
mirror_name_tables_addr(mode, addr, overflow_checks) ==
    LET mirrored == BitAnd(addr, 12287)
        idx == Sub16(mirrored, 8192, overflow_checks)
    IN  IF idx.panic # "none" THEN [panic |-> idx.panic, idx |-> 0]
        ELSE mirror_match(mode, idx.val)

\* PpuBus::read_name_tables: the byte read, or the panic.
read_name_tables_fn(arr, mode, addr, overflow_checks) ==
    LET m == mirror_name_tables_addr(mode, addr, overflow_checks) IN
    IF m.panic # "none" THEN [panic |-> m.panic, idx |-> m.idx, ret |-> 0]
    ELSE IF ~InBounds(arr, m.idx) THEN [panic |-> "index", idx |-> m.idx, ret |-> 0]
    ELSE [panic |-> "none", idx |-> m.idx, ret |-> Load(arr, m.idx)]

\* PpuBus::write_name_tables: the array after the write, or the panic.
write_name_tables_fn(arr, mode, addr, data, overflow_checks) ==
    LET m == mirror_name_tables_addr(mode, addr, overflow_checks) IN
    IF m.panic # "none" THEN [panic |-> m.panic, idx |-> m.idx, arr |-> arr]
    ELSE IF ~InBounds(arr, m.idx) THEN [panic |-> "index", idx |-> m.idx, arr |-> arr]
    ELSE [panic |-> "none", idx |-> m.idx, arr |-> Store(arr, m.idx, data)]

read_name_tables(addr, overflow_checks) ==
    /\ panicked = "none"
    /\ \E r \in {read_name_tables_fn(name_tables, cartridge.mirroring, addr,
                                     overflow_checks)} :
           /\ panicked' = r.panic
           /\ last' = [op |-> "read_name_tables", addr |-> addr,
                       idx |-> r.idx, ret |-> r.ret]
    /\ UNCHANGED <<cartridge, cpu, ppu, clock_count, ticks, deferred, hist,
                   pool>>

write_name_tables(addr, data, overflow_checks) ==
    /\ panicked = "none"
    /\ \E w \in {write_name_tables_fn(name_tables, cartridge.mirroring, addr,
                                      data, overflow_checks)} :
           /\ name_tables' = w.arr
           /\ panicked' = w.panic
           /\ last' = [op |-> "write_name_tables", addr |-> addr,
                       idx |-> w.idx, data |-> data]
    /\ UNCHANGED <<cartridge, cpu, ppu, clock_count, ticks, deferred, hist,
                   controller1, controller2, controller1_state,
                   controller2_state, controller1_snapshot,
                   controller2_snapshot, ram>>

\* Emulator::new: the fields as constructed, then reset().
InitWith(modes, resets) ==
    /\ cartridge \in [mirroring : modes, irq_set : {FALSE}]
    /\ \E in \in resets : cpu = [cycles |-> in.cycles]
    /\ controller1 = 0
    /\ controller2 = 0
    /\ controller1_state = FALSE
    /\ controller2_state = FALSE
    /\ controller1_snapshot = 0
    /\ controller2_snapshot = 0
    /\ ram = ArrayNew(RAM_SIZE)
    /\ ppu = [nmi_set |-> FALSE]
    /\ name_tables = ArrayNew(NAME_TABLES_SIZE)
    /\ clock_count = 0
    /\ panicked = "none"
    /\ ticks = 0
    /\ hist = [p \in {1, 2} |-> NoWrite]
    /\ deferred = FALSE
    /\ last = [op |-> "new"]

(***************************************************************************)
(* SpecClock: the orchestrator alone (ticks and resets).                   *)
(***************************************************************************)
InitClock == InitWith({"Horizontal"}, ResetInputs)

NextClock ==
    \/ \E in \in ClockInputs : ticks < MaxTicks /\ clock(in)
    \/ \E in \in ResetInputs : ticks > 0 /\ reset(in)

SpecClock == InitClock /\ [][NextClock]_vars

(***************************************************************************)
(* SpecViews: short runs of ticks whose CPU step may access a PPU register *)
(* through its bus, and resets.                                            *)
(***************************************************************************)
ViewInputs == TickInputs(RegAccess)

NextViews ==
    \/ \E in \in ViewInputs : ticks < ShortRun /\ clock(in)
    \/ \E in \in ResetInputs : ticks > 0 /\ reset(in)

SpecViews == InitClock /\ [][NextViews]_vars

(***************************************************************************)
(* SpecCtrl: the two controller ports (inputs, writes, reads).             *)
(***************************************************************************)
\* Button bytes: 1011_0010 and its complement 0100_1101.
Buttons == {178, 77}

\* Bytes written to a controller port.
StrobeData == {0, 1}

NextCtrl ==
    \/ \E state \in Buttons : set_controller1(state)
    \/ \E state \in Buttons : set_controller2(state)
    \/ \E data \in StrobeData : controller1_write(data)
    \/ \E data \in StrobeData : controller2_write(data)
    \/ read_controller1_snapshot
    \/ read_controller2_snapshot

InitBus == InitWith({"Horizontal"}, QuietResets)

SpecCtrl == InitBus /\ [][NextCtrl]_vars

(***************************************************************************)
(* SpecWrite: the controller ports, written with bytes that have bits 1..7 *)
(* set.                                                                    *)
(***************************************************************************)
\* 0000_0001, 1111_1110, 1111_1111.
WriteData == {1, 254, 255}

NextWrite ==
    \/ \E state \in Buttons : set_controller1(state)
    \/ \E state \in Buttons : set_controller2(state)
    \/ \E data \in WriteData : controller1_write(data)
    \/ \E data \in WriteData : controller2_write(data)
    \/ read_controller1_snapshot
    \/ read_controller2_snapshot

SpecWrite == InitBus /\ [][NextWrite]_vars

\* Port p as the state holds it.
Live(p) == IF p = 1 THEN controller1 ELSE controller2

Strobe(p) == IF p = 1 THEN controller1_state ELSE controller2_state

Snapshot(p) == IF p = 1 THEN controller1_snapshot ELSE controller2_snapshot

\* Bit k (0 = least significant) of byte v.
Bit(v, k) == (v \div Pow2(k)) % 2

(***************************************************************************)
(* SpecRam: work RAM through the CPU bus.                                  *)
(***************************************************************************)
\* Addresses of the four mirrors of work RAM (their first, second and last
\* bytes, and $555 with its mirror $D55) and addresses outside the window.
RamAddrs ==
    {0, 1, 1365, 2047, 2048, 2049, 3413, 4095, 6144, 8191, 8192, 32769, 65535}

RamData == {0, 1, 2}

NextRam ==
    \/ \E addr \in RamAddrs, data \in RamData : write_ram(addr, data)
    \/ \E addr \in RamAddrs : read_ram(addr)

SpecRam == InitBus /\ [][NextRam]_vars

(***************************************************************************)
(* SpecNt: video RAM through the PPU bus, in each mirroring mode.          *)
(***************************************************************************)
\* The first and last byte of each quadrant of $2000-$2FFF and of its mirror
\* $3000-$3FFF, then addresses below $2000 and above $3FFF.
NtAddrs ==
    {8192 + q * 1024 + k : q \in 0..7, k \in {0, 1023}}
        \cup {0, 4096, 8191, 16384, 24581, 49152, 65535}

NtData == {1, 2}

InitNt == InitWith(Mirroring, QuietResets)

\* The cells of video RAM that hold a non-zero byte.
Written(arr) == DOMAIN arr.cells

NextNt ==
    \/ \E addr \in NtAddrs, data \in NtData, oc \in BOOLEAN :
            /\ write_name_tables(addr, data, oc)
            /\ Cardinality(Written(name_tables')) <= MaxCells
    \/ \E addr \in NtAddrs, oc \in BOOLEAN : read_name_tables(addr, oc)

SpecNt == InitNt /\ [][NextNt]_vars

(***************************************************************************)
(* Spec: the shared memory pool over a session of ticks, resets, inputs    *)
(* and bus writes (no interrupt is raised in it).                          *)
(***************************************************************************)
QuietInputs ==
    [vblank : {FALSE}, scanline_irq : {FALSE}, cycles : {0}, reg : {"none"}]

Init == InitWith({"Vertical"}, QuietResets)

Next ==
    \/ \E in \in QuietInputs : ticks < ShortRun /\ clock(in)
    \/ \E in \in QuietResets : reset(in)
    \/ set_controller1(178)
    \/ set_controller2(77)
    \/ \E data \in StrobeData : controller1_write(data)
    \/ \E data \in StrobeData : controller2_write(data)
    \/ write_ram(2049, 1)
    \/ write_name_tables(9221, 2, TRUE)

Spec == Init /\ [][Next]_vars

(***************************************************************************)
(* The claims.                                                             *)
(***************************************************************************)
\* A step of the behaviour that is a tick.
IsTick == ticks' = ticks + 1

\* C1: the tick with index ticks - 1 (0-indexed from construction or from the
\* last reset) advanced the CPU exactly once when the index is a multiple of
\* 3, and not at all otherwise.
C1_CpuEveryThirdTick ==
    last.op = "clock" =>
        CountOf(last.log, "cpu") = (IF (ticks - 1) % 3 = 0 THEN 1 ELSE 0)

\* A CPU-due tick past the 256th.
C1_Witness ==
    /\ last.op = "clock"
    /\ ticks - 1 = 258
    /\ Logged(last.log, "cpu")

\* C2: every tick steps the PPU exactly once and before anything else (the
\* pending checks, the interrupt entry, the CPU step); an NMI the PPU step
\* raises in a due tick with an idle CPU is serviced in that same tick.
C2_PpuFirst ==
    [][IsTick =>
        /\ CountOf(last'.log, "ppu") = 1
        /\ last'.log[1] = "ppu"
        /\ (last'.in.vblank /\ clock_count % 3 = 0 /\ cpu.cycles = 0
                => Logged(last'.log, "nmi"))]_vars

\* The first tick of a session: no NMI was pending, the PPU step raised one
\* and the tick serviced it.
C2_Witness ==
    /\ last.op = "clock"
    /\ ticks = 1
    /\ last.in.vblank
    /\ last.log = <<"ppu", "take_nmi", "nmi", "cpu">>

\* C3: in a due tick with an idle CPU, when an NMI and a mapper IRQ are both
\* pending at the check, the NMI is consumed and signalled, the CPU steps
\* once and the IRQ stays pending; a pending IRQ stays pending through every
\* step that does not service it; and in a due tick with an idle CPU and no
\* NMI pending, a pending IRQ is consumed and signalled before the CPU step.
C3_NmiBeforeIrq ==
    [][/\ (IsTick /\ clock_count % 3 = 0 /\ cpu.cycles = 0) =>
            LET nmiP == ppu.nmi_set \/ last'.in.vblank
                irqP == cartridge.irq_set \/ last'.in.scanline_irq
            IN  /\ (nmiP /\ irqP) =>
                        /\ last'.log = <<"ppu", "take_nmi", "nmi", "cpu">>
                        /\ ~ppu'.nmi_set
                        /\ cartridge'.irq_set
                /\ (~nmiP /\ irqP) =>
                        /\ last'.log = <<"ppu", "take_nmi", "take_irq", "irq", "cpu">>
                        /\ ~cartridge'.irq_set
       /\ (cartridge.irq_set /\ ~(IsTick /\ Logged(last'.log, "irq")))
            => cartridge'.irq_set
       /\ deferred' => cartridge'.irq_set]_vars

\* An IRQ that lost to an NMI is serviced by a later tick.
C3_Witness ==
    /\ last.op = "clock"
    /\ last.served_deferred

\* The operations of the PPU bus on the nametables.
NtOp == last.op \in {"read_name_tables", "write_name_tables"}

\* C4: every nametable read or write, at whatever address and in whatever
\* mode, completes without a panic on an index in 0..4095.
C4_NameTableIndexTotal ==
    NtOp => (panicked = "none" /\ last.idx \in 0..4095)

\* The physical bank of quadrant q (0..3) in each mode.
Bank(mode, q) ==
    CASE mode = "Horizontal" -> <<0, 0, 1, 1>>[q + 1]
      [] mode = "Vertical" -> <<0, 1, 0, 1>>[q + 1]
      [] mode = "FourScreen" -> <<0, 1, 2, 3>>[q + 1]
      [] mode = "OneScreenLower" -> <<0, 0, 0, 0>>[q + 1]
      [] mode = "OneScreenUpper" -> <<1, 1, 1, 1>>[q + 1]

\* C5: an access at an address of $2000-$2FFF, in quadrant q at offset k,
\* lands on index Bank(mode, q) * 1024 + k; in FourScreen that is the
\* address less $2000, so no two addresses share an index.
C5_MirroringTable ==
    (NtOp /\ last.addr \in 8192..12287) =>
        /\ panicked = "none"
        /\ last.idx = (Bank(cartridge.mirroring, (last.addr - 8192) \div 1024) * 1024)
                        + ((last.addr - 8192) % 1024)
        /\ cartridge.mirroring = "FourScreen" => last.idx = last.addr - 8192

\* The last byte of quadrant 0 in OneScreenUpper lands in bank 1.
C5_Witness ==
    /\ last.op = "write_name_tables"
    /\ cartridge.mirroring = "OneScreenUpper"
    /\ last.addr = 9215
    /\ last.idx = 2047
    /\ Load(name_tables, 2047) = last.data

\* The last operation was a controller read of port p.
ReadOf(p) == last.op = "controller_read" /\ last.port = p

\* C6: a controller read of a port whose strobe flag is set returns bit 7 of
\* the port's live button byte.
C6_PollReturnsBit7 ==
    \A p \in {1, 2} : (ReadOf(p) /\ Strobe(p)) => last.ret = Bit(Live(p), 7)

\* C7: after a write with bit 0 clear made while the live byte was v, and
\* with no write of the port since, the n-th read returns bit 8 - n of v for
\* n = 1..8 and 0 for n > 8, whatever the inputs since.
C7_ShiftOut ==
    \A p \in {1, 2} :
        (ReadOf(p) /\ Low(hist[p])) =>
            last.ret = (IF hist[p].reads <= 8
                        THEN Bit(hist[p].live, 8 - hist[p].reads) ELSE 0)

\* The 9th read after a strobe-low write made on 1011_0010, the input having
\* changed since.
C7_Witness ==
    /\ ReadOf(1)
    /\ Low(hist[1])
    /\ hist[1].live = 178
    /\ hist[1].reads = 9
    /\ controller1 = 77
    /\ last.ret = 0

\* The bits of 1011_0010, most significant first, then 0.
B2Bits == <<1, 0, 1, 1, 0, 0, 1, 0, 0>>

\* C8 as stated: write 0x00, then set_controller(1011_0010), then reads: the
\* n-th read (n = 1..9) returns B2Bits[n].
C8_WriteThenSet ==
    \A p \in {1, 2} :
        (/\ ReadOf(p)
         /\ hist[p].written /\ hist[p].data = 0
         /\ hist[p].after = [n |-> 1, state |-> 178]
         /\ hist[p].reads <= 9)
            => last.ret = B2Bits[hist[p].reads]

\* C8, amended: set_controller(1011_0010), then write 0x00, then reads: the
\* n-th read (n = 1..9) returns B2Bits[n], whatever the inputs after the write.
C8_SetThenWrite ==
    \A p \in {1, 2} :
        (/\ ReadOf(p)
         /\ hist[p].written /\ hist[p].data = 0
         /\ hist[p].live = 178
         /\ hist[p].reads <= 9)
            => last.ret = B2Bits[hist[p].reads]

\* Port 2: input 1011_0010, write 0x00, 8 reads; the 8th returned bit 0.
C8_Witness ==
    /\ ReadOf(2)
    /\ hist[2].written /\ hist[2].data = 0
    /\ hist[2].live = 178
    /\ hist[2].after.n = 0
    /\ hist[2].reads = 8
    /\ controller2_snapshot = 0

\* The cells in which two arrays differ.
Changed(a, b) ==
    {i \in DOMAIN a.cells \cup DOMAIN b.cells : Load(a, i) # Load(b, i)}

\* C9: a write_ram(a1, d) does not panic, changes no cell but a1 mod 2048,
\* and a read_ram at every address a2 with the same residue mod 2048 then
\* returns d; a read_ram does not panic and changes nothing.
C9_RamMirror ==
    [][/\ last'.op = "write_ram" =>
            /\ panicked' = "none"
            /\ ram'.len = ram.len
            /\ Changed(ram, ram') \subseteq {last'.addr % 2048}
            /\ \A a2 \in RamAddrs :
                    a2 % 2048 = last'.addr % 2048 =>
                        read_ram_fn(ram', a2) = [panic |-> "none", ret |-> last'.data]
       /\ last'.op = "read_ram" =>
            /\ panicked' = "none"
            /\ ram' = ram
            /\ last'.ret = Load(ram, last'.addr % 2048)]_vars

\* A write at $FFFF landed in cell 2047 and left cell 0 as written before.
C9_Witness ==
    /\ last.op = "write_ram"
    /\ last.addr = 65535
    /\ last.data = 2
    /\ Load(ram, 2047) = 2
    /\ Load(ram, 0) = 1

\* C10: a reset sets the phase counter to 0 and leaves work RAM, video RAM
\* and the live byte, strobe flag and snapshot of both ports as they were.
C10_ResetKeepsPool ==
    [][last'.op = "reset" =>
        /\ clock_count' = 0
        /\ ram' = ram
        /\ name_tables' = name_tables
        /\ controller1' = controller1 /\ controller2' = controller2
        /\ controller1_state' = controller1_state
        /\ controller2_state' = controller2_state
        /\ controller1_snapshot' = controller1_snapshot
        /\ controller2_snapshot' = controller2_snapshot]_vars

\* A reset made out of phase, on a pool that holds written RAM and video RAM,
\* a set strobe flag on port 1 and a captured snapshot on port 2.
C10_Witness ==
    /\ last.op = "reset"
    /\ last.count = 2
    /\ clock_count = 0
    /\ Load(ram, 1) = 1
    /\ Load(name_tables, 1029) = 2
    /\ controller1 = 178 /\ controller1_state
    /\ controller2_snapshot = 77 /\ ~controller2_state

\* The views of the last operation that are live after its first i events.
LiveViews(tr, i, view) ==
    Cardinality({j \in 1..i : tr[j].op = "borrow" /\ tr[j].view = view})
    - Cardinality({j \in 1..i : tr[j].op = "drop" /\ tr[j].view = view})

LiveCount(tr, i) == LiveViews(tr, i, "CpuBus") + LiveViews(tr, i, "PpuBus")

HasViews == last.op \in {"clock", "reset"}

\* C11 (as stated): at no instant are two bus views live at once, a PPU
\* register access of the CPU step included.
C11_NoTwoViews ==
    HasViews => \A i \in DOMAIN last.views : LiveCount(last.views, i) <= 1

\* C11 (amended): the views the Emulator builds never coexist with any other
\* view; the only overlap is the PPU bus a PPU register access builds from
\* the fields of the live CPU bus, which is dropped at once; there is at
\* most one view of each kind, and none is left when the operation ends.
C11_ViewsNested ==
    HasViews =>
        LET tr == last.views IN
        /\ LiveCount(tr, Len(tr)) = 0
        /\ \A i \in DOMAIN tr :
              /\ LiveViews(tr, i, "CpuBus") \in {0, 1}
              /\ LiveViews(tr, i, "PpuBus") \in {0, 1}
              /\ tr[i].op = "borrow" /\ tr[i].owner = "Emulator"
                    => LiveCount(tr, i - 1) = 0
              /\ tr[i].op = "borrow" /\ tr[i].owner = "CpuBus"
                    => /\ tr[i].view = "PpuBus"
                       /\ LiveViews(tr, i - 1, "CpuBus") = 1
                       /\ LiveViews(tr, i - 1, "PpuBus") = 0
                       /\ i < Len(tr)
                       /\ tr[i + 1] = [op |-> "drop", view |-> "PpuBus",
                                       owner |-> "none"]

C11_Witness ==
    /\ last.op = "clock"
    /\ \E i \in DOMAIN last.views :
          last.views[i].op = "borrow" /\ last.views[i].owner = "CpuBus"

\* C12 (as stated): between operations the phase counter is 0, 1 or 2.
C12_CountBelowThree == clock_count \in {0, 1, 2}

\* C12 (amended): between operations the phase counter is 0 after
\* construction or a reset, and then 1, 2, 3, 1, 2, 3, ... after each tick:
\* the counter is set to 0 on entry of a CPU-due tick and incremented at the
\* end of every tick, so it rests at 3 where the claim says 0.
C12_CountCycle ==
    clock_count = IF ticks = 0 THEN 0 ELSE ((ticks - 1) % 3) + 1

C12_Witness == clock_count = 3 /\ ticks = 6 /\ last.op = "clock"

\* C13 (as stated): for each port, while the strobe flag is set the snapshot
\* equals the live byte.
C13_SnapshotSynced ==
    \A p \in {1, 2} : Strobe(p) => Snapshot(p) = Live(p)

\* C13 (amended): for each port, while the strobe flag is set the snapshot
\* equals the byte that was live at the last write of the port; an input
\* set afterwards changes the live byte only.
C13_SnapshotOfWrite ==
    \A p \in {1, 2} :
        Strobe(p) => hist[p].written /\ Snapshot(p) = hist[p].live

C13_Witness ==
    /\ last.op = "set_controller"
    /\ Strobe(last.port)
    /\ Snapshot(last.port) # Live(last.port)

\* C14: the pending flags are queried (and so consumed) only in a CPU-due
\* tick that finds the CPU idle. In any other tick no query is made and a
\* flag changes only by being raised by the PPU step, so a pending flag
\* stays pending; a due tick that finds the CPU busy is the PPU step and one
\* normal CPU step.
C14_TakeOnlyDueIdle ==
    [][IsTick =>
        LET due == cpu_due(clock_count)
            idle == cpu.cycles = 0
            log == last'.log
        IN  /\ Logged(log, "take_nmi") \/ Logged(log, "take_irq")
                  => due /\ idle
            /\ ~(due /\ idle)
                  => /\ ppu'.nmi_set = (ppu.nmi_set \/ last'.in.vblank)
                     /\ cartridge'.irq_set
                           = (cartridge.irq_set \/ last'.in.scanline_irq)
            /\ due /\ ~idle => log = <<"ppu", "cpu">>
            /\ ~due => log = <<"ppu">>]_vars

\* A due tick found the CPU busy: both flags are still pending after it.
C14_Witness ==
    /\ last.op = "clock"
    /\ last.log = <<"ppu", "cpu">>
    /\ ~last.in.vblank /\ ~last.in.scanline_irq
    /\ ppu.nmi_set /\ cartridge.irq_set

\* The interrupt entries a tick signalled.
Entries(log) == CountOf(log, "nmi") + CountOf(log, "irq")

\* C15: every CPU-due tick advances the CPU exactly one step, as the last
\* thing it does; it signals at most one interrupt entry (an NMI or an IRQ,
\* never both), immediately before that step; and it consumes the mapper
\* IRQ only when the CPU is idle and no NMI is pending at the check.
C15_OneStepOneEntry ==
    [][(IsTick /\ cpu_due(clock_count)) =>
        LET log == last'.log
            n == Len(log)
            nmiP == ppu.nmi_set \/ last'.in.vblank
            irqP == cartridge.irq_set \/ last'.in.scanline_irq
        IN  /\ CountOf(log, "cpu") = 1
            /\ log[n] = "cpu"
            /\ Entries(log) <= 1
            /\ Entries(log) = 1 => log[n - 1] \in {"nmi", "irq"}
            /\ Logged(log, "irq") <=> (cpu.cycles = 0 /\ ~nmiP /\ irqP)
            /\ (irqP /\ ~cartridge'.irq_set) => (cpu.cycles = 0 /\ ~nmiP)]_vars

\* A due tick took the IRQ branch: one entry, then one CPU step.
C15_Witness ==
    /\ last.op = "clock"
    /\ ticks = 4
    /\ last.in.scanline_irq
    /\ last.log = <<"ppu", "take_nmi", "take_irq", "irq", "cpu">>

\* C16: a controller write sets the strobe flag of its port to bit 0 of the
\* byte written, whatever its bits 1..7, and the snapshot to the live byte,
\* whatever bit 0 and the strobe flag were; the live byte is unchanged. After
\* a write with bit 0 clear the next read returns bit 7 of that live byte:
\* the shift-out starts again.
C16_WriteLatches ==
    [][/\ last'.op = "controller_write" =>
            \A p \in {1, 2} :
                last'.port = p =>
                    /\ Strobe(p)' = (Bit(last'.data, 0) = 1)
                    /\ Snapshot(p)' = Live(p)
                    /\ Live(p)' = Live(p)
       /\ last'.op = "controller_read" =>
            LET h == hist[last'.port] IN
            (Low(h) /\ h.reads = 0) => last'.ret = Bit(h.live, 7)]_vars

\* A write of 1111_1110 in the middle of a shift-out, after the input changed
\* to 0100_1101: the strobe stays clear and the snapshot is the new input.
C16_Witness ==
    /\ last.op = "controller_write"
    /\ last.data = 254
    /\ last.restart
    /\ ~Strobe(last.port)
    /\ Snapshot(last.port) = 77

\* The nametable window $2000-$3FFF, and an address of it less the $1000 of
\* the mirror $3000-$3FFF.
NtWindow == {a \in NtAddrs : a \in 8192..16383}

Unmirrored(a) == IF a >= 12288 THEN a - 4096 ELSE a

Quadrant(a) == (Unmirrored(a) - 8192) \div 1024

Offset(a) == (Unmirrored(a) - 8192) % 1024

\* The aliases the claim lists: the same offset, and in Horizontal the
\* quadrants 0, 1 or the quadrants 2, 3, in Vertical the quadrants 0, 2 or
\* the quadrants 1, 3, in the other modes the same quadrant.
Aliases(mode, a, b) ==
    /\ Offset(a) = Offset(b)
    /\ CASE mode = "Horizontal" -> Quadrant(a) \div 2 = Quadrant(b) \div 2
         [] mode = "Vertical" -> Quadrant(a) % 2 = Quadrant(b) % 2
         [] OTHER -> Quadrant(a) = Quadrant(b)

\* What a read at addr returns in this state.
NtRead(addr, oc) ==
    read_name_tables_fn(name_tables, cartridge.mirroring, addr, oc)

\* C17: after a write at an address of $2000-$3FFF, a read at each alias of
\* the address returns the byte written; in Horizontal an address of the
\* other pair of quadrants is another cell.
C17_AliasesReadBack ==
    (last.op = "write_name_tables" /\ last.addr \in NtWindow) =>
        /\ panicked = "none"
        /\ \A oc \in BOOLEAN : \A b \in NtWindow :
              \E rb \in {NtRead(b, oc)} :
                /\ Aliases(cartridge.mirroring, last.addr, b) =>
                        rb.panic = "none" /\ rb.ret = last.data
                /\ (cartridge.mirroring = "Horizontal"
                        /\ Quadrant(last.addr) \div 2 # Quadrant(b) \div 2)
                    => rb.idx # last.idx

\* Vertical: a byte written at $2FFF is read back at $37FF, the mirror of its
\* alias $27FF.
C17_Witness ==
    /\ cartridge.mirroring = "Vertical"
    /\ last.op = "write_name_tables"
    /\ last.addr = 12287
    /\ last.data = 2
    /\ NtRead(14335, TRUE).ret = 2
    /\ NtRead(13311, TRUE).ret = 0

\* C18: a controller write or read of a port leaves the live byte, the strobe
\* flag and the snapshot of the other port unchanged; set_controller1/2 sets
\* the live byte of its port and changes nothing else, no strobe flag and no
\* snapshot, so a shift-out in progress goes on with the bits captured; a
\* read with the strobe flag set leaves the snapshot unchanged.
C18_PortFrame ==
    [][\A p \in {1, 2} :
        LET q == 3 - p IN
        /\ (last'.op \in {"controller_write", "controller_read"}
                /\ last'.port = p)
            => /\ Live(q)' = Live(q)
               /\ Strobe(q)' = Strobe(q)
               /\ Snapshot(q)' = Snapshot(q)
        /\ (last'.op = "set_controller" /\ last'.port = p)
            => /\ Live(p)' = last'.state
               /\ Live(q)' = Live(q)
               /\ UNCHANGED <<controller1_state, controller2_state,
                              controller1_snapshot, controller2_snapshot,
                              ram, name_tables, cartridge, cpu, ppu,
                              clock_count>>
        /\ (last'.op = "controller_read" /\ last'.port = p /\ Strobe(p))
            => Snapshot(p)' = Snapshot(p)]_vars

\* An input set in the middle of a shift-out of a port, and another while
\* the strobe is high: the snapshot is the one that was being shifted.
C18_Witness ==
    /\ last.op = "set_controller"
    /\ last.port = 1
    /\ Restart(hist[1])
    /\ hist[1].live = 178
    /\ hist[1].reads = 3
    /\ Live(1) = 77
    /\ Snapshot(1) = 144
    /\ Strobe(2) /\ Snapshot(2) # Live(2)

\* C19: the phase counter stays far below 255 (it never exceeds 3), so the
\* increment at the end of a tick never wraps, and the CPU-due test of the
\* next tick is true exactly when the number of ticks since construction or
\* the last reset is a multiple of 3, past the 256th tick too.
C19_NoWrap ==
    /\ clock_count <= 3
    /\ clock_count < U8 - 1
    /\ cpu_due(clock_count) <=> (ticks % 3 = 0)
    /\ last.op = "clock" => clock_count # 0

\* After 258 ticks the next tick is CPU-due.
C19_Witness ==
    /\ last.op = "clock"
    /\ ticks = 258
    /\ cpu_due(clock_count)

====
